---- MODULE Spec2Model ----
(***************************************************************************)
(* Model of the "parallel" command line tool (src/parallel.cc,             *)
(* src/util.hpp): argument resolution, input acquisition, construction of  *)
(* the executor, the parallel for_each over the input lines and the        *)
(* blocking wait.  Strings whose characters matter (the --threads value,   *)
(* the command words, the input lines, the rendered commands) are          *)
(* sequences of one-character strings.                                     *)
(***************************************************************************)
EXTENDS Integers, Sequences, FiniteSets, Bags, TLC

\* ------------------------------------------------------------------ bounds
MaxWords == 2       \* most words of the positional command
MaxLines == 3       \* most lines of the input source
MaxHw == 1          \* largest value hardware_concurrency() reports

\* ----------------------------------------------------------- input domains
Marker == <<"{", "}">>

\* words a command line is made of
Words == { <<"e">>, Marker, <<"o", "{", "}">>, <<"}">> }

\* values given to --threads
ThreadStrings ==
  { <<"-", "1">>, <<"0">>, <<"1">>, <<"2">>, <<"x">>,
    <<"9", "9", "9", "9", "9", "9", "9", "9", "9", "9">> }

\* lines of the input source
LineStrings == { <<"a">>, Marker }

FileNames == { "f" }

\* the text of lines ls, every line ended by a newline
RECURSIVE Unlines(_)
Unlines(ls) ==
  IF ls = <<>> THEN <<>> ELSE Head(ls) \o <<"\n">> \o Unlines(Tail(ls))

\* the texts an input source can hold: lines ended by a newline, and the same
\* with the newline of the last line missing
Streams ==
  LET texts == { Unlines(ls) : ls \in UNION { [1..k -> LineStrings] : k \in 0..MaxLines } }
  IN  texts \cup { SubSeq(t, 1, Len(t) - 1) : t \in texts \ { <<>> } }

SeqsUpTo(S, n) == UNION { [1..k -> S] : k \in 0..n }

\* an option with nargs(1): absent (<<>>) or present with one value
Optional(S) == { <<>> } \cup { <<s>> : s \in S }

\* what argparse hands back for one command line
Argv ==
  { a \in [ parse_error : BOOLEAN, verbose : BOOLEAN, debug : BOOLEAN,
            threads : Optional(ThreadStrings), file : Optional(FileNames),
            command : SeqsUpTo(Words, MaxWords) ] :
      a.parse_error =>
        (~a.verbose /\ ~a.debug /\ a.threads = <<>> /\ a.file = <<>>
           /\ a.command = <<>>) }

\* ------------------------------------------------- library conversions used
DigitVal ==
  [ c \in {"0", "1", "2", "3", "4", "5", "6", "7", "8", "9"} |->
      CASE c = "0" -> 0 [] c = "1" -> 1 [] c = "2" -> 2 [] c = "3" -> 3
        [] c = "4" -> 4 [] c = "5" -> 5 [] c = "6" -> 6 [] c = "7" -> 7
        [] c = "8" -> 8 [] c = "9" -> 9 ]

DigitChar == <<"0", "1", "2", "3", "4", "5", "6", "7", "8", "9">>

IsDigit(c) == c \in DOMAIN DigitVal

\* the value of the run of digits of s from position i, or -1 once it
\* exceeds the largest int
RECURSIVE ParseDigits(_, _, _)
ParseDigits(s, i, acc) ==
  IF i > Len(s) \/ ~IsDigit(s[i]) THEN acc
  ELSE IF acc > (2147483647 - DigitVal[s[i]]) \div 10 THEN 0 - 1
  ELSE ParseDigits(s, i + 1, acc * 10 + DigitVal[s[i]])

\* std::stoi: optional sign, then the longest run of digits; no digit at
\* all throws std::invalid_argument and a value outside int throws
\* std::out_of_range (ok = FALSE); trailing text is ignored.  (The one value
\* -2147483648 is taken as out of range.)
stoi(s) ==
  LET signed == Len(s) > 0 /\ s[1] \in {"-", "+"}
      start == IF signed THEN 2 ELSE 1
      mag == ParseDigits(s, start, 0)
  IN  IF start > Len(s) \/ ~IsDigit(s[start])
      THEN [ok |-> FALSE, val |-> 0]
      ELSE IF mag < 0
      THEN [ok |-> FALSE, val |-> 0]
      ELSE [ok |-> TRUE, val |-> IF signed /\ s[1] = "-" THEN 0 - mag ELSE mag]

\* std::to_string of an unsigned value
RECURSIVE to_string(_)
to_string(n) ==
  IF n < 10 THEN <<DigitChar[n + 1]>>
  ELSE to_string(n \div 10) \o <<DigitChar[(n % 10) + 1]>>

FormatError == [ok |-> FALSE, out |-> <<>>]

\* fmt::format(t, inp) with a single argument, scanning t from position i:
\* "{{" and "}}" are escapes, "{}" takes the next automatic argument, and
\* any other brace is a format error, as is a second "{}"
RECURSIVE fmt_scan(_, _, _, _, _)
fmt_scan(t, i, inp, nextArg, out) ==
  IF i > Len(t) THEN [ok |-> TRUE, out |-> out]
  ELSE IF t[i] = "{" THEN
    IF i = Len(t) THEN FormatError
    ELSE IF t[i + 1] = "{" THEN fmt_scan(t, i + 2, inp, nextArg, Append(out, "{"))
    ELSE IF t[i + 1] = "}" THEN
      IF nextArg >= 1 THEN FormatError
      ELSE fmt_scan(t, i + 2, inp, nextArg + 1, out \o inp)
    ELSE FormatError
  ELSE IF t[i] = "}" THEN
    IF i < Len(t) /\ t[i + 1] = "}"
    THEN fmt_scan(t, i + 2, inp, nextArg, Append(out, "}"))
    ELSE FormatError
  ELSE fmt_scan(t, i + 1, inp, nextArg, Append(out, t[i]))

fmt_format(t, inp) == fmt_scan(t, 1, inp, 0, <<>>)

\* ------------------------------------------------------------- src/util.hpp
\* join<' '>: the first word, then a blank and the next word for the rest
RECURSIVE join_from(_, _, _)
join_from(vec, a, s) ==
  IF a > Len(vec) THEN s ELSE join_from(vec, a + 1, s \o <<" ">> \o vec[a])

join(vec) == join_from(vec, 2, vec[1])

\* find: 0-based index of the first element equal to value, -1 if none
RECURSIVE find_from(_, _, _)
find_from(vec, value, i) ==
  IF i >= Len(vec) THEN 0 - 1
  ELSE IF vec[i + 1] = value THEN i
  ELSE find_from(vec, value, i + 1)

find(vec, value) == find_from(vec, value, 0)

\* the loop while (std::getline(fh, l)) lines.emplace_back(l) over the text s
\* from position p: cur is the line being extracted; a getline that meets the
\* end of the text with nothing extracted fails and ends the loop
RECURSIVE getlines(_, _, _, _)
getlines(s, p, cur, lines) ==
  IF p > Len(s) THEN (IF cur = <<>> THEN lines ELSE Append(lines, cur))
  ELSE IF s[p] = "\n" THEN getlines(s, p + 1, <<>>, Append(lines, cur))
  ELSE getlines(s, p + 1, Append(cur, s[p]), lines)

\* std::unordered_map::emplace: inserts unless the key is present
emplace(m, k, v) ==
  IF k \in DOMAIN m THEN m
  ELSE [x \in DOMAIN m \cup {k} |-> IF x = k THEN v ELSE m[x]]

EmptyMap == [x \in {} |-> <<>>]

\* level_of with --verbose taking precedence over --debug
level_of_verbose_wins(a) ==
  IF a.verbose THEN "info"
  ELSE IF a.debug THEN "debug" ELSE "warn"

\* the verbosity switches: both given is an error, else the level selected
level_of(a) ==
  IF a.verbose THEN (IF a.debug THEN "conflict" ELSE "info")
  ELSE IF a.debug THEN "debug" ELSE "warn"

\* threads_of without the test for a detection that reports 0
threads_of_no_zero_check(a, proc_count) ==
  LET given == a.threads # <<>>
      n == IF given THEN stoi(a.threads[1]) ELSE [ok |-> FALSE, val |-> 0]
  IN  IF given /\ n.ok
      THEN (IF n.val < 0 THEN [err |-> "threads", threads |-> <<>>, detect |-> FALSE]
            ELSE [err |-> "none", threads |-> a.threads[1], detect |-> FALSE])
      ELSE [err |-> "none", threads |-> to_string(proc_count), detect |-> TRUE]

\* the threads block: a given value that stoi reads is rejected when
\* negative; an absent or unreadable value falls back to detection
threads_of(a, proc_count) ==
  LET given == a.threads # <<>>
      n == IF given THEN stoi(a.threads[1]) ELSE [ok |-> FALSE, val |-> 0]
  IN  IF given /\ n.ok
      THEN (IF n.val < 0 THEN [err |-> "threads", threads |-> <<>>, detect |-> FALSE]
            ELSE [err |-> "none", threads |-> a.threads[1], detect |-> FALSE])
      ELSE (IF proc_count = 0 THEN [err |-> "hw", threads |-> <<>>, detect |-> TRUE]
            ELSE [err |-> "none", threads |-> to_string(proc_count), detect |-> TRUE])

\* command_of looking for "{}" inside the words instead of for a word "{}"
command_of_substring(a) ==
  IF a.command = <<>> THEN [err |-> "nocommand", scmd |-> <<>>]
  ELSE IF ~\E k \in 1..Len(a.command) : \E p \in 1..Len(a.command[k]) - 1 :
             SubSeq(a.command[k], p, p + 1) = Marker
    THEN [err |-> "placeholder", scmd |-> <<>>]
  ELSE [err |-> "none", scmd |-> join(a.command)]

\* command_of without the check for the "{}" word
command_of_unchecked(a) ==
  IF a.command = <<>> THEN [err |-> "nocommand", scmd |-> <<>>]
  ELSE [err |-> "none", scmd |-> join(a.command)]

\* the command block: no command at all, no "{}" word, or the joined words
command_of(a) ==
  IF a.command = <<>> THEN [err |-> "nocommand", scmd |-> <<>>]
  ELSE IF find(a.command, Marker) < 0 THEN [err |-> "placeholder", scmd |-> <<>>]
  ELSE [err |-> "none", scmd |-> join(a.command)]

\* args_of with the two values of "stdin" exchanged
args_of_swapped(a, threads, scmd) ==
  LET m1 == emplace(EmptyMap, "threads", threads)
      m2 == IF a.file # <<>>
            THEN emplace(emplace(m1, "filename", a.file[1]), "stdin", "true")
            ELSE emplace(emplace(m1, "filename", ""), "stdin", "false")
  IN  emplace(m2, "command", scmd)

\* the map handed back to main
args_of(a, threads, scmd) ==
  LET m1 == emplace(EmptyMap, "threads", threads)
      m2 == IF a.file # <<>>
            THEN emplace(emplace(m1, "filename", a.file[1]), "stdin", "false")
            ELSE emplace(emplace(m1, "filename", ""), "stdin", "true")
  IN  emplace(m2, "command", scmd)

\* get_cli_args as a whole: the first error met, the log level left behind,
\* whether detection ran, and the map returned when there is no error
get_cli_args(a, proc_count) ==
  LET t == threads_of(a, proc_count)
      c == command_of(a)
      lvl == level_of(a)
      m3 == args_of(a, t.threads, c.scmd)
  IN  IF a.parse_error
        THEN [err |-> "parse", level |-> "info", detect |-> FALSE, args |-> EmptyMap]
      ELSE IF lvl = "conflict"
        THEN [err |-> "levels", level |-> "info", detect |-> FALSE, args |-> EmptyMap]
      ELSE IF t.err # "none"
        THEN [err |-> t.err, level |-> lvl, detect |-> t.detect, args |-> EmptyMap]
      ELSE IF c.err # "none"
        THEN [err |-> c.err, level |-> lvl, detect |-> t.detect, args |-> EmptyMap]
      ELSE [err |-> "none", level |-> lvl, detect |-> t.detect, args |-> m3]

\* ----------------------------------------------------------- src/parallel.cc
\* execute passing the template itself to system()
execute_unfilled(command_template, inp) ==
  IF fmt_format(command_template, inp).ok
  THEN [ok |-> TRUE, out |-> command_template]
  ELSE FormatError

\* execute: the command handed to system(), or the format error thrown
execute(command_template, inp) == fmt_format(command_template, inp)

VARIABLES
  argv,             \* the command line, as parsed by argparse
  pc,               \* where main is
  level,            \* the process-wide spdlog level
  detected,         \* what hardware_concurrency() returned, -1 if not asked
  args,             \* the map get_cli_args returned
  command_template, \* main's copy of args.at("command")
  workers,          \* number of worker threads of the executor, 0 before it
  source,           \* the source read: "none", "stdin" or "file"
  content,          \* the text of the source read
  input,            \* the input lines
  last,             \* number of elements in the range given to for_each
  next,             \* number of input elements handed to a worker so far
  slot,             \* slot[w]: the element worker w is executing, 0 if idle
  handed,           \* handed[i]: how often element i was handed to a worker
  finished,         \* elements whose system() call has returned
  calls,            \* bag of the command strings passed to system()
  failures,         \* elements whose system() call reported a failure
  configError,      \* the configuration error raised, "none" if none
  exitAt,           \* the function the process ended in, "none" while alive
  exitCode          \* the exit status of the process, -1 while alive

vars == <<argv, pc, level, detected, args, command_template, workers, source,
          content, input, last, next, slot, handed, finished, calls, failures, configError,
          exitAt, exitCode>>

poolVars == <<last, next, slot, handed, finished, calls, failures>>

Init ==
  /\ argv \in Argv
  /\ pc = "start"
  /\ level = "info"
  /\ detected = 0 - 1
  /\ args = EmptyMap
  /\ command_template = <<>>
  /\ workers = 0
  /\ source = "none"
  /\ content = <<>>
  /\ input = <<>>
  /\ last = 0
  /\ next = 0
  /\ slot = <<>>
  /\ handed = <<>>
  /\ finished = {}
  /\ calls = EmptyBag
  /\ failures = {}
  /\ configError = "none"
  /\ exitAt = "none"
  /\ exitCode = 0 - 1

\* exit(0) after a diagnostic for the configuration error err
ExitWithError(err, fn) ==
  /\ pc' = "exited"
  /\ configError' = err
  /\ exitAt' = fn
  /\ exitCode' = 0

\* std::terminate after an exception nothing catches
Terminate(fn) ==
  /\ pc' = "aborted"
  /\ exitAt' = fn
  /\ exitCode' = 134
  /\ UNCHANGED configError

\* GetCliArgs with the exit(0) after the missing-placeholder diagnostic left
\* out: the error is reported and the function carries on
GetCliArgs_no_exit ==
  /\ pc = "start"
  /\ \E proc_count \in 0..MaxHw :
       LET r == get_cli_args(argv, proc_count)
       IN  /\ level' = r.level
           /\ detected' = IF r.detect THEN proc_count ELSE detected
           /\ IF r.err = "none"
              THEN /\ args' = r.args
                   /\ pc' = "parsed"
                   /\ UNCHANGED <<configError, exitAt, exitCode>>
              ELSE IF r.err = "placeholder"
              THEN /\ args' = args_of(argv, threads_of(argv, proc_count).threads,
                                      join(argv.command))
                   /\ pc' = "parsed"
                   /\ configError' = r.err
                   /\ UNCHANGED <<exitAt, exitCode>>
              ELSE /\ ExitWithError(r.err, "get_cli_args")
                   /\ UNCHANGED args
  /\ UNCHANGED <<argv, command_template, workers, source, content, input,
                 poolVars>>

\* main: auto args = get_cli_args(argc, argv)
GetCliArgs ==
  /\ pc = "start"
  /\ \E proc_count \in 0..MaxHw :
       LET r == get_cli_args(argv, proc_count)
       IN  /\ level' = r.level
           /\ detected' = IF r.detect THEN proc_count ELSE detected
           /\ IF r.err = "none"
              THEN /\ args' = r.args
                   /\ pc' = "parsed"
                   /\ UNCHANGED <<configError, exitAt, exitCode>>
              ELSE /\ ExitWithError(r.err, "get_cli_args")
                   /\ UNCHANGED args
  /\ UNCHANGED <<argv, command_template, workers, source, content, input,
                 poolVars>>

\* tf::Executor(N): a pool of N worker threads; no pool of zero workers
Executor(n) ==
  IF n = 0 THEN [ok |-> FALSE, workers |-> 0] ELSE [ok |-> TRUE, workers |-> n]

\* CreateExecutor with one worker fewer than configured
CreateExecutor_one_fewer ==
  /\ pc = "parsed"
  /\ command_template' = args["command"]
  /\ LET e == Executor(stoi(args["threads"]).val - 1)
     IN  IF e.ok /\ e.workers > 0
         THEN /\ workers' = e.workers
              /\ slot' = [w \in 1..e.workers |-> 0]
              /\ pc' = "executor"
              /\ UNCHANGED <<configError, exitAt, exitCode>>
         ELSE /\ Terminate("main")
              /\ UNCHANGED <<workers, slot>>
  /\ UNCHANGED <<argv, level, detected, args, source, content, input, last,
                 next, handed, finished, calls, failures>>

\* CreateExecutor with one worker more than configured
CreateExecutor_one_more ==
  /\ pc = "parsed"
  /\ command_template' = args["command"]
  /\ LET e == Executor(stoi(args["threads"]).val + 1)
     IN  /\ workers' = e.workers
         /\ slot' = [w \in 1..e.workers |-> 0]
         /\ pc' = "executor"
         /\ UNCHANGED <<configError, exitAt, exitCode>>
  /\ UNCHANGED <<argv, level, detected, args, source, content, input, last,
                 next, handed, finished, calls, failures>>

\* main: the copies of the map entries and tf::Executor executor(stoi(...))
CreateExecutor ==
  /\ pc = "parsed"
  /\ command_template' = args["command"]
  /\ LET e == Executor(stoi(args["threads"]).val)
     IN  IF e.ok
         THEN /\ workers' = e.workers
              /\ slot' = [w \in 1..e.workers |-> 0]
              /\ pc' = "executor"
              /\ UNCHANGED <<configError, exitAt, exitCode>>
         ELSE /\ Terminate("main")
              /\ UNCHANGED <<workers, slot>>
  /\ UNCHANGED <<argv, level, detected, args, source, content, input, last,
                 next, handed, finished, calls, failures>>

\* read_stdin_lines: the lines getline extracts from standard input
read_stdin_lines(text) == getlines(text, 1, <<>>, <<>>)

\* read_file_lines reading until eof() instead of until getline fails: the
\* last, failed getline adds an empty line
read_file_lines_until_eof(text) == Append(getlines(text, 1, <<>>, <<>>), <<>>)

\* read_file_lines on a file that opens: the lines getline extracts from it
read_file_lines(text) == getlines(text, 1, <<>>, <<>>)

\* ReadInput placed before the construction of the executor
ReadInput_before_executor ==
  /\ pc = "parsed"
  /\ IF args["stdin"] = "true"
     THEN \E text \in Streams :
            /\ content' = text
            /\ input' = read_stdin_lines(text)
            /\ source' = "stdin"
            /\ pc' = "input"
            /\ UNCHANGED <<configError, exitAt, exitCode>>
     ELSE \/ \E text \in Streams :
               /\ content' = text
               /\ input' = read_file_lines(text)
               /\ source' = "file"
               /\ pc' = "input"
               /\ UNCHANGED <<configError, exitAt, exitCode>>
          \/ /\ ExitWithError("file", "read_file_lines")
             /\ UNCHANGED <<content, input, source>>
  /\ UNCHANGED <<argv, level, detected, args, command_template, workers,
                 poolVars>>

\* main: input = read_stdin_lines() or read_file_lines(filename)
ReadInput ==
  /\ pc = "executor"
  /\ IF args["stdin"] = "true"
     THEN \E text \in Streams :
            /\ content' = text
            /\ input' = read_stdin_lines(text)
            /\ source' = "stdin"
            /\ pc' = "input"
            /\ UNCHANGED <<configError, exitAt, exitCode>>
     ELSE \/ \E text \in Streams :
               /\ content' = text
               /\ input' = read_file_lines(text)
               /\ source' = "file"
               /\ pc' = "input"
               /\ UNCHANGED <<configError, exitAt, exitCode>>
          \/ /\ ExitWithError("file", "read_file_lines")
             /\ UNCHANGED <<content, input, source>>
  /\ UNCHANGED <<argv, level, detected, args, command_template, workers,
                 poolVars>>

\* Run over a range that stops one element short of input.end()
Run_short ==
  /\ pc = "input"
  /\ pc' = "running"
  /\ last' = IF Len(input) > 0 THEN Len(input) - 1 ELSE 0
  /\ next' = 0
  /\ handed' = [i \in 1..Len(input) |-> 0]
  /\ UNCHANGED <<argv, level, detected, args, command_template, workers,
                 source, content, input, slot, finished, calls, failures,
                 configError, exitAt, exitCode>>

\* main: taskflow.for_each(...) and executor.run(taskflow); main then waits
Run ==
  /\ pc = "input"
  /\ pc' = "running"
  /\ last' = Len(input)
  /\ next' = 0
  /\ handed' = [i \in 1..Len(input) |-> 0]
  /\ UNCHANGED <<argv, level, detected, args, command_template, workers,
                 source, content, input, slot, finished, calls, failures,
                 configError, exitAt, exitCode>>

\* Execute moving the input element into the command: the element is left
\* empty
Execute_moving_input(w, i) ==
  LET r == execute(command_template, input[i])
  IN  /\ UNCHANGED command_template
      /\ input' = IF r.ok THEN [input EXCEPT ![i] = <<>>] ELSE input
      /\ IF r.ok
         THEN /\ slot' = [slot EXCEPT ![w] = i]
              /\ calls' = calls (+) SetToBag({r.out})
              /\ UNCHANGED <<pc, configError, exitAt, exitCode>>
         ELSE /\ Terminate("execute")
              /\ UNCHANGED <<slot, calls>>

\* Execute formatting the command into the template string itself
Execute_in_place(w, i) ==
  LET r == execute(command_template, input[i])
  IN  /\ command_template' = IF r.ok THEN r.out ELSE command_template
      /\ UNCHANGED input
      /\ IF r.ok
         THEN /\ slot' = [slot EXCEPT ![w] = i]
              /\ calls' = calls (+) SetToBag({r.out})
              /\ UNCHANGED <<pc, configError, exitAt, exitCode>>
         ELSE /\ Terminate("execute")
              /\ UNCHANGED <<slot, calls>>

\* worker w calls execute on element i: the command is formatted and
\* system() starts, or the format error ends the process; the template and
\* the input, passed by reference, are only read
Execute(w, i) ==
  LET r == execute(command_template, input[i])
  IN  /\ UNCHANGED <<command_template, input>>
      /\ IF r.ok
         THEN /\ slot' = [slot EXCEPT ![w] = i]
              /\ calls' = calls (+) SetToBag({r.out})
              /\ UNCHANGED <<pc, configError, exitAt, exitCode>>
         ELSE /\ Terminate("execute")
              /\ UNCHANGED <<slot, calls>>

\* Claim with the range dealt out in advance: element i belongs to worker
\* ((i - 1) mod workers) + 1
Claim_static(w) ==
  /\ pc = "running"
  /\ w \in DOMAIN slot
  /\ slot[w] = 0
  /\ next < last
  /\ (next % workers) + 1 = w
  /\ next' = next + 1
  /\ handed' = [handed EXCEPT ![next + 1] = @ + 1]
  /\ Execute(w, next + 1)
  /\ UNCHANGED <<argv, level, detected, args, workers, source, content, last,
                 finished, failures>>

\* an idle worker takes the next element of the range and calls the task on
\* it
Claim(w) ==
  /\ pc = "running"
  /\ w \in DOMAIN slot
  /\ slot[w] = 0
  /\ next < last
  /\ next' = next + 1
  /\ handed' = [handed EXCEPT ![next + 1] = @ + 1]
  /\ Execute(w, next + 1)
  /\ UNCHANGED <<argv, level, detected, args, workers, source, content, last,
                 finished, failures>>

\* SystemReturns in input order: a call returns only when the calls of all
\* earlier elements have returned
SystemReturns_in_order(w) ==
  /\ pc = "running"
  /\ w \in DOMAIN slot
  /\ slot[w] # 0
  /\ \A j \in 1..(slot[w] - 1) : j \in finished
  /\ \E rc \in {0, 1} :
       failures' = IF rc # 0 THEN failures \cup {slot[w]} ELSE failures
  /\ finished' = finished \cup {slot[w]}
  /\ slot' = [slot EXCEPT ![w] = 0]
  /\ UNCHANGED <<argv, pc, level, detected, args, command_template, workers,
                 source, content, input, last, next, handed, calls,
                 configError, exitAt, exitCode>>

\* SystemReturns counting only the calls that succeeded: a failed element is
\* not recorded as finished
SystemReturns_forget_failed(w) ==
  /\ pc = "running"
  /\ w \in DOMAIN slot
  /\ slot[w] # 0
  /\ \E rc \in {0, 1} :
       /\ failures' = IF rc # 0 THEN failures \cup {slot[w]} ELSE failures
       /\ finished' = IF rc # 0 THEN finished ELSE finished \cup {slot[w]}
  /\ slot' = [slot EXCEPT ![w] = 0]
  /\ UNCHANGED <<argv, pc, level, detected, args, command_template, workers,
                 source, content, input, last, next, handed, calls,
                 configError, exitAt, exitCode>>

\* SystemReturns with the result of system() checked: a failure ends the
\* process with status 1
SystemReturns_checked(w) ==
  /\ pc = "running"
  /\ w \in DOMAIN slot
  /\ slot[w] # 0
  /\ \E rc \in {0, 1} :
       /\ failures' = IF rc # 0 THEN failures \cup {slot[w]} ELSE failures
       /\ IF rc # 0
          THEN pc' = "exited" /\ exitAt' = "execute" /\ exitCode' = 1
          ELSE UNCHANGED <<pc, exitAt, exitCode>>
  /\ finished' = finished \cup {slot[w]}
  /\ slot' = [slot EXCEPT ![w] = 0]
  /\ UNCHANGED <<argv, level, detected, args, command_template, workers,
                 source, content, input, last, next, handed, calls,
                 configError>>

\* SystemReturns for a command started without waiting for it: the worker
\* is free again while the invocation has not finished
SystemReturns_detached(w) ==
  /\ pc = "running"
  /\ w \in DOMAIN slot
  /\ slot[w] # 0
  /\ slot' = [slot EXCEPT ![w] = 0]
  /\ UNCHANGED <<argv, pc, level, detected, args, command_template, workers,
                 source, content, input, last, next, handed, finished, calls,
                 failures, configError, exitAt, exitCode>>

\* the system() call of worker w returns; its result is dropped
SystemReturns(w) ==
  /\ pc = "running"
  /\ w \in DOMAIN slot
  /\ slot[w] # 0
  /\ \E rc \in {0, 1} :
       failures' = IF rc # 0 THEN failures \cup {slot[w]} ELSE failures
  /\ finished' = finished \cup {slot[w]}
  /\ slot' = [slot EXCEPT ![w] = 0]
  /\ UNCHANGED <<argv, pc, level, detected, args, command_template, workers,
                 source, content, input, last, next, handed, calls,
                 configError, exitAt, exitCode>>

\* WaitReturns without the wait(): main returns while tasks are pending
WaitReturns_no_wait ==
  /\ pc = "running"
  /\ pc' = "done"
  /\ exitAt' = "main"
  /\ exitCode' = 0
  /\ UNCHANGED <<argv, level, detected, args, command_template, workers,
                 source, content, input, poolVars, configError>>

\* main: wait() returns once every element is done, then return 0
WaitReturns ==
  /\ pc = "running"
  /\ next = last
  /\ \A w \in DOMAIN slot : slot[w] = 0
  /\ pc' = "done"
  /\ exitAt' = "main"
  /\ exitCode' = 0
  /\ UNCHANGED <<argv, level, detected, args, command_template, workers,
                 source, content, input, poolVars, configError>>

\* every worker a run can have
MaxOf(S) == CHOOSE m \in S : \A x \in S : x <= m

WorkerIds == 1..MaxOf({stoi(s).val : s \in ThreadStrings} \cup {MaxHw})

Next ==
  \/ GetCliArgs
  \/ CreateExecutor
  \/ ReadInput
  \/ Run
  \/ \E w \in WorkerIds : Claim(w)
  \/ \E w \in WorkerIds : SystemReturns(w)
  \/ WaitReturns

Spec == Init /\ [][Next]_vars

\* every thread that can take a step eventually takes one
Fairness ==
  /\ WF_vars(GetCliArgs)
  /\ WF_vars(CreateExecutor)
  /\ WF_vars(ReadInput)
  /\ WF_vars(Run)
  /\ \A w \in WorkerIds : WF_vars(Claim(w)) /\ WF_vars(SystemReturns(w))
  /\ WF_vars(WaitReturns)

FairSpec == Spec /\ Fairness

\* ------------------------------------------------------------------ claims
\* elements whose system() call is running
InFlight == { i \in 1..Len(input) : \E w \in DOMAIN slot : slot[w] = i }

\* the worker count the configuration resolved
ConfiguredWorkers == stoi(args["threads"]).val

\* the template of the specification: every "{}" of t replaced by e
RECURSIVE render_from(_, _, _, _)
render_from(t, i, e, out) ==
  IF i > Len(t) THEN out
  ELSE IF i < Len(t) /\ SubSeq(t, i, i + 1) = Marker
    THEN render_from(t, i + 2, e, out \o e)
  ELSE render_from(t, i + 1, e, Append(out, t[i]))

render(t, e) == render_from(t, 1, e, <<>>)

\* the bag { render(t, e) : e in the first k elements of inp }
RECURSIVE RenderedBag(_, _, _)
RenderedBag(t, inp, k) ==
  IF k = 0 THEN EmptyBag
  ELSE RenderedBag(t, inp, k - 1) (+) SetToBag({render(t, inp[k])})

Contains(s, sub) ==
  \E i \in 1..Len(s) : i + Len(sub) - 1 <= Len(s) /\ SubSeq(s, i, i + Len(sub) - 1) = sub

\* the template string a command line stands for
TemplateText(cmd) == IF cmd = <<>> THEN <<>> ELSE join(cmd)

\* C1: when the dispatch has returned, system() has been called exactly as
\* often as the input has elements, whatever the number of workers
C1_ExactlyNInvocations ==
  pc = "done" => BagCardinality(calls) = Len(input)

C1_Witness ==
  pc = "done" /\ Len(input) = 3 /\ workers = 2 /\ BagCardinality(calls) = 3

C3_AtMostWInFlight ==
  pc = "running" => Cardinality(InFlight) <= ConfiguredWorkers

C3_Witness ==
  /\ pc = "running"
  /\ ConfiguredWorkers = 2
  /\ Cardinality(InFlight) = 2
  /\ next < last

\* C4: when the wait has returned every invocation has finished and none is
\* in flight
C4_ReturnAfterAllFinished ==
  pc = "done" => (finished = 1..Len(input) /\ InFlight = {})

C4_Witness ==
  pc = "done" /\ exitCode = 0 /\ Len(input) >= 2 /\ finished = 1..Len(input)

\* C5: under fair scheduling a dispatch that has started eventually returns
\* with every element processed
C5_EventuallyReturns ==
  (pc = "running") ~> (pc = "done" /\ finished = 1..Len(input))

\* C6: a failed invocation never ends the run; when the dispatch has
\* returned every element was attempted and the exit status is 0, with or
\* without failures
C6_FailuresIsolated ==
  /\ failures # {} => pc \in {"running", "done"}
  /\ pc = "done" =>
       /\ exitCode = 0
       /\ \A i \in 1..Len(input) : handed[i] = 1 /\ i \in finished

C6_Witness ==
  pc = "done" /\ 1 \in failures /\ Len(input) >= 2 /\ 2 \notin failures

\* C7: a command whose template lacks "{}" ends in get_cli_args with a
\* configuration error and without any invocation
C7_NoMarkerRejected ==
  (pc # "start" /\ ~Contains(TemplateText(argv.command), Marker)) =>
    /\ pc = "exited"
    /\ exitAt = "get_cli_args"
    /\ configError # "none"
    /\ calls = EmptyBag

C7_Witness ==
  /\ pc = "exited"
  /\ configError = "placeholder"
  /\ argv.command = <<<<"e">>, <<"}">>>>

\* C8: a --threads value that reads as 0 or less ends in get_cli_args
\* without any invocation, and an executor never has fewer than 1 worker
C8_NonPositiveThreadsRejected ==
  /\ (pc # "start" /\ argv.threads # <<>> /\ stoi(argv.threads[1]).ok
        /\ stoi(argv.threads[1]).val <= 0) =>
       (pc = "exited" /\ exitAt = "get_cli_args" /\ calls = EmptyBag)
  /\ pc \in {"executor", "input", "running", "done"} => workers >= 1

\* C9: a configuration error ends the process with a non-zero status
C9_ConfigErrorNonZeroExit ==
  configError # "none" => (pc = "exited" /\ exitCode # 0)

\* C10: a run with a configuration error has made no invocation, and a run
\* that has handed out an element has no configuration error
C10_FailFast ==
  configError # "none" =>
    (next = 0 /\ calls = EmptyBag /\ finished = {} /\ pc = "exited")

C10_Witness ==
  configError = "file" /\ exitAt = "read_file_lines" /\ workers >= 1

\* C11: execute never fails inside a worker: no run ends in the format error
\* of a template that get_cli_args accepted
C11_AcceptedTemplateRenders ==
  ~(pc = "aborted" /\ exitAt = "execute")

\* C12: for every element handed to a worker, execute yields the template
\* with every "{}" replaced by the literal element and all other text kept
C12_RenderReplacesEveryMarker ==
  (pc \in {"running", "done"} \/ (pc = "aborted" /\ exitAt = "execute")) =>
    \A i \in 1..next :
      execute(command_template, input[i]) =
        [ok |-> TRUE, out |-> render(command_template, input[i])]

\* the bag of the commands execute yields for the first k elements of inp
RECURSIVE ExecutedBag(_, _, _)
ExecutedBag(t, inp, k) ==
  IF k = 0 THEN EmptyBag
  ELSE ExecutedBag(t, inp, k - 1) (+) SetToBag({execute(t, inp[k]).out})

\* C13: during and after the dispatch the template is still the one the
\* configuration resolved, and the commands that were passed to system() are
\* the ones rendering the started elements again yields
C13_RenderPure ==
  pc \in {"running", "done"} =>
    /\ command_template = args["command"]
    /\ calls = ExecutedBag(args["command"], input, next)

C13_Witness ==
  /\ pc = "running"
  /\ workers = 2
  /\ next = 2
  /\ input[1] = input[2]
  /\ Cardinality(InFlight) = 2
  /\ CopiesIn(execute(command_template, input[1]).out, calls) = 2

\* C14: with an empty source the dispatch returns without any invocation and
\* the process exits with status 0
C14_EmptyInput ==
  (source # "none" /\ content = <<>>) =>
    /\ input = <<>>
    /\ pc \in {"input", "running", "done"}
    /\ next = 0
    /\ calls = EmptyBag
    /\ pc = "running" => ENABLED WaitReturns
    /\ pc = "done" => exitCode = 0

C14_Witness ==
  /\ pc = "done"
  /\ source = "file"
  /\ content = <<>>
  /\ calls = EmptyBag
  /\ exitCode = 0

C16_UnreadableThreadsRejected ==
  (pc # "start" /\ argv.threads # <<>> /\ ~stoi(argv.threads[1]).ok) =>
    (pc = "exited" /\ configError # "none" /\ calls = EmptyBag)

\* C17: without --threads the worker count is the detected hardware
\* concurrency, and a detection of 0 ends the process with a configuration
\* error before any dispatch
C17_ThreadsDetected ==
  (pc # "start" /\ ~argv.parse_error /\ ~(argv.verbose /\ argv.debug)
     /\ argv.threads = <<>>) =>
    /\ detected >= 0
    /\ detected = 0 =>
         (pc = "exited" /\ configError = "hw" /\ workers = 0 /\ next = 0
            /\ calls = EmptyBag)
    /\ detected > 0 =>
         /\ configError # "hw"
         /\ "threads" \in DOMAIN args => stoi(args["threads"]).val = detected
         /\ workers # 0 => workers = detected

C17_Witness ==
  /\ argv.threads = <<>>
  /\ pc = "running"
  /\ detected = 1
  /\ workers = 1
  /\ next = 1

\* C18: --debug together with --verbose ends the process in get_cli_args
\* before threads, input source or template are resolved and before any
\* invocation
C18_BothLevelsRejected ==
  (pc # "start" /\ argv.verbose /\ argv.debug) =>
    /\ pc = "exited"
    /\ exitAt = "get_cli_args"
    /\ configError = "levels"
    /\ detected < 0
    /\ args = EmptyMap
    /\ source = "none"
    /\ workers = 0
    /\ calls = EmptyBag

C18_Witness ==
  /\ pc = "exited"
  /\ argv.verbose
  /\ argv.debug
  /\ argv.threads = <<>>
  /\ argv.command = <<<<"e">>, Marker>>

\* the number of lines of a text: its newlines, and one more for a last
\* line without newline
NumLines(t) ==
  Cardinality({ p \in 1..Len(t) : t[p] = "\n" })
    + (IF t # <<>> /\ t[Len(t)] # "\n" THEN 1 ELSE 0)

\* C19: the source read is the file when --file is given and standard input
\* otherwise, and the input is the lines of its text, in order, one element
\* per line
C19_OneSourceLineByLine ==
  source # "none" =>
    /\ source = (IF argv.file # <<>> THEN "file" ELSE "stdin")
    /\ Len(input) = NumLines(content)
    /\ \/ content = Unlines(input)
       \/ /\ input # <<>>
          /\ content = SubSeq(Unlines(input), 1, Len(Unlines(input)) - 1)

C19_Witness ==
  /\ pc = "done"
  /\ source = "file"
  /\ input = <<<<"a">>, Marker>>
  /\ content = <<"a", "\n", "{", "}">>

\* C20: a worker goes from idle to one element, and from an element only to
\* idle, and then that element's invocation has finished
C20_OneInvocationPerWorker ==
  [][\A w \in DOMAIN slot :
       slot'[w] # slot[w] =>
         \/ slot[w] = 0
         \/ slot'[w] = 0 /\ slot[w] \in finished']_vars

C20_Witness ==
  /\ pc = "running"
  /\ workers = 1
  /\ slot[1] = 2
  /\ 1 \in finished

\* C21: no completion order: the system() call of any element in flight can
\* be the next to return, whatever other elements are still in flight
C21_NoCompletionOrder ==
  [](pc = "running" =>
       \A w \in DOMAIN slot : slot[w] # 0 => ENABLED SystemReturns(w))

\* the second element has completed while the first, started before it, is
\* still in flight
C21_Witness ==
  /\ pc = "running"
  /\ workers = 2
  /\ 1 \in InFlight
  /\ 2 \in finished
  /\ 1 \notin finished

\* C22: as long as fewer invocations are in flight than workers are
\* configured and an element is left, an idle worker can start it
C22_FullParallelism ==
  []((pc = "running" /\ next < last
        /\ Cardinality(InFlight) < ConfiguredWorkers) =>
       \E w \in DOMAIN slot : slot[w] = 0 /\ ENABLED Claim(w))

C22_Witness ==
  /\ pc = "running"
  /\ ConfiguredWorkers = 2
  /\ Len(input) = 2
  /\ InFlight = {1, 2}

\* C23, as claimed: an executor exists only once the input has been read
C23_ExecutorAfterInput ==
  workers # 0 => source # "none"

\* C23, amended: configuration, then executor, then input, then dispatch,
\* then the wait, then exit
C23_ExecutorBeforeInput ==
  /\ workers # 0 => "threads" \in DOMAIN args
  /\ source # "none" => workers >= 1
  /\ pc \in {"running", "done"} => source # "none"
  /\ next > 0 => pc \in {"running", "done", "aborted"}
  /\ pc = "done" => (next = last /\ InFlight = {} /\ exitCode = 0)

C23_Witness ==
  pc = "executor" /\ workers = 2 /\ source = "none" /\ argv.file # <<>>

\* C24: a step of the dispatch changes nothing but the bookkeeping of the
\* pool and the end of the process: template, input and configuration stay
C24_SharedDataUnchanged ==
  [][pc = "running" =>
       /\ command_template' = command_template
       /\ input' = input
       /\ UNCHANGED <<argv, level, detected, args, workers, source, content,
                      last>>]_vars

C24_Witness ==
  /\ pc = "running"
  /\ finished # {}
  /\ InFlight # {}
  /\ command_template = args["command"]
  /\ input = getlines(content, 1, <<>>, <<>>)

\* get_cli_args returned a map: the command was accepted
Accepted == "command" \in DOMAIN args

HasMarkerWord(cmd) == \E k \in 1..Len(cmd) : cmd[k] = Marker

\* C25: a command without a word "{}" is rejected, also when "{}" occurs
\* inside a longer word, and a command with such a word is accepted unless an
\* earlier check of get_cli_args ended the process
C25_WholeWordMarker ==
  pc # "start" =>
    /\ Accepted => HasMarkerWord(argv.command)
    /\ ~HasMarkerWord(argv.command) =>
         (pc = "exited" /\ exitAt = "get_cli_args")
    /\ (HasMarkerWord(argv.command)
          /\ configError \notin {"parse", "levels", "threads", "hw"}) => Accepted

C25_Witness ==
  /\ pc = "exited"
  /\ configError = "placeholder"
  /\ argv.command = <<<<"e">>, <<"o", "{", "}">>>>
  /\ Contains(TemplateText(argv.command), Marker)

\* elements no worker has taken yet
Unclaimed == (next + 1)..last

\* C26: while the process lives the elements are split into unclaimed, in
\* flight and finished; an element only moves forward and the number of
\* finished elements never decreases
C26_Conservation ==
  /\ [](pc \in {"running", "done"} =>
          /\ Unclaimed \cup InFlight \cup finished = 1..Len(input)
          /\ Unclaimed \cap InFlight = {}
          /\ Unclaimed \cap finished = {}
          /\ InFlight \cap finished = {}
          /\ Cardinality(Unclaimed) + Cardinality(InFlight)
               + Cardinality(finished) = Len(input))
  /\ [][(pc = "running" /\ pc' \in {"running", "done"}) =>
          /\ finished \subseteq finished'
          /\ InFlight \subseteq (InFlight' \cup finished')
          /\ Unclaimed' \subseteq Unclaimed
          /\ Cardinality(finished') >= Cardinality(finished)]_vars

C26_Witness ==
  /\ pc = "running"
  /\ Len(input) = 3
  /\ Unclaimed = {3}
  /\ InFlight = {2}
  /\ finished = {1}

TypeOK ==
  /\ pc \in {"start", "parsed", "executor", "input", "running", "done",
             "exited", "aborted"}
  /\ next \in 0..last
  /\ last \in {0, Len(input)}
  /\ finished \subseteq 1..Len(input)
====
